---- MODULE Spec2Model ----
(***************************************************************************)
(* The ping cards of docs/script.js: for every card of the page the script *)
(* renders "checking", then runs measureRtt (a serial run of probeRtt      *)
(* attempts separated by a 180 ms wait), reduces the successful round trip *)
(* times to their median and renders the card up, warn or down.            *)
(*                                                                         *)
(* The browser runs one task at a time, and the continuation of an await   *)
(* runs as a microtask right after the task that settled the promise: one  *)
(* action of the model is one task of the event loop together with the     *)
(* microtasks it triggers.  The main script is one task; the model walks   *)
(* through it card by card (mainPc, k) and lets no other task run before   *)
(* it has ended.                                                           *)
(*                                                                         *)
(* Two more machines are modelled, each under a specification of its own:  *)
(* the typewriter of docs/script.js (TypeSpec) and the FAQ of              *)
(* project/site/script.js (FaqSpec).  Spec and FairSpec are the ping cards *)
(* on a page without them.                                                 *)
(***************************************************************************)
EXTENDS Integers, Sequences, FiniteSets, TLC

VARIABLES
    hasAbortController, \* typeof AbortController !== "undefined" (line 67)
    pingUrl,            \* card -> card.dataset.pingUrl (line 137)
    samples,            \* the budget handed to measureRtt (line 105)
    latencies,          \* the round trip times the network can show
    mainPc,             \* position of the main script in lines 130-162
    k,                  \* index of the card the main script handles next
    card,               \* card -> state of its async function and its DOM
    microQ,             \* cards whose probe returned without suspending
    open,               \* FAQ item -> its <details> has the open attribute
    coalesces,          \* the browser fires one toggle event for several
                        \* pending changes of one <details>
    toggleQ,            \* FAQ items whose toggle event is yet to be fired
    settled,            \* the markup opened one item at most, or the toggle
                        \* event of an open item has been fired since
    typedWord,          \* the page has the element #typed-word (line 164)
    prefersReduced,     \* prefers-reduced-motion matches (line 2)
    wordIndex,          \* line 184
    charIndex,          \* line 185
    deleting,           \* line 186
    textContent,        \* typedWord.textContent
    stepDelay           \* delay of the pending setTimeout(step, ...), 0: none

vars == <<hasAbortController, pingUrl, samples, latencies, mainPc, k, card, microQ,
          open, coalesces, toggleQ, settled,
          typedWord, prefersReduced, wordIndex, charIndex, deleting, textContent,
          stepDelay>>

(***************************************************************************)
(* Bounds and program constants                                            *)
(***************************************************************************)
NumCards == 2
MaxSamples == 3
NumItems == 3
MaxPending == 2

BatchSamples == 3
DelayMs == 180
FastThreshold == 150
SlowCeiling == 700
WarnBase == 150
WarnSpan == 11

\* "" is a missing data-ping-url; the second is a URL that parses; new URL()
\* throws a TypeError on the third.
NoUrl == ""
GoodUrl == "https://host/ping"
BadUrl == "http://["
Urls == {NoUrl, GoodUrl, BadUrl}

RunLatencies == {90, 100, 149, 150, 220, 300, 310, 700, 701}
BatchLatencies == {90}
MarkupLatencies == {90, 150, 701}

\* the words of lines 167-177, a Latin letter for every letter
words ==
    << <<"s", "v", "o", "b", "o", "d", "n", "o", "m", "u">>,
       <<"b", "e", "z", "o", "p", "a", "s", "n", "o", "m", "u">>,
       <<"b", "y", "s", "t", "r", "o", "m", "u">>,
       <<"s", "t", "a", "b", "i", "l", "q", "n", "o", "m", "u">>,
       <<"p", "r", "i", "v", "a", "t", "n", "o", "m", "u">>,
       <<"n", "a", "d", "e", "j", "n", "o", "m", "u">>,
       <<"z", "a", "w", "i", "w", "e", "n", "n", "o", "m", "u">>,
       <<"o", "t", "k", "r", "y", "t", "o", "m", "u">>,
       <<"k", "o", "m", "f", "o", "r", "t", "n", "o", "m", "u">> >>

FirstDelay == 1800
DeletingDelay == 40
TypingDelay == 62
HoldDelay == 2400
DeleteDelay == 36
NextWordDelay == 360

TextChecking == "izmeryaem..."
TextDown == "nedostupen"

pingCards == DOMAIN pingUrl

(***************************************************************************)
(* setPingState: the status class and the value text of the card           *)
(***************************************************************************)
StatusClasses ==
    {"status--checking", "status--up", "status--warn", "status--down"}

\* A call of setPingState.  What the caller handed over: `renders` lists the
\* states of all calls, `status` and `valueText` are the arguments of the
\* last one.  What the call did: on a card that lacks its
\* [data-ping-status] or its [data-ping-value] element (statusEl, valueEl)
\* line 51 returns and nothing is written; otherwise the status classes of
\* the one element are replaced (classList) and the text of the other is
\* set (valueElText).
SetPingState(s, state, valueText) ==
    LET called == [s EXCEPT !.renders = Append(@, state),
                            !.status = state,
                            !.valueText = valueText]
    IN IF ~s.statusEl \/ ~s.valueEl
       THEN called
       ELSE [called EXCEPT
               !.classList = (@ \ StatusClasses) \cup {"status--" \o state},
               !.valueElText = valueText]

\* new URL(rawUrl, window.location.href) throws on a URL it cannot parse
WithCacheBustThrows(rawUrl) == rawUrl = BadUrl

(***************************************************************************)
(* probeRtt                                                                *)
(***************************************************************************)
ProbeOk(rtt) == [ok |-> TRUE, rtt |-> rtt]
ProbeFailed == [ok |-> FALSE]

\* what ended the probe that returned last: a response, a rejected fetch, the
\* abort at the deadline, the lost race of the fallback, a TypeError of URL
Causes == {"response", "network", "abort", "timeout", "url"}
Because(s, cause) == [s EXCEPT !.cause = cause]

\* probeRtt up to its await.  `request`: the fetch the running probe awaits;
\* `timer`: its deadline timer is pending.  When withCacheBust throws, the
\* catch returns {ok: false} at once: the cancellable path has set its timer
\* (line 87) and clears it (line 101), the fallback has not called wait yet.
\* the `finally` missing: the timer set at line 87 outlives the probe
KeepTimeout(s) ==
    IF s.timer THEN [s EXCEPT !.timer = FALSE, !.stale = @ + 1] ELSE s

ClearTimeout(s) == [s EXCEPT !.timer = FALSE]

\* withCacheBust called ahead of the try: the TypeError leaves probeRtt and
\* ends the run and the function of the card
ProbeStartUncaught(s, url, cancellable) ==
    LET t == [s EXCEPT !.attempts = @ + 1]
    IN IF WithCacheBustThrows(url)
       THEN [t EXCEPT !.pc = "threw"]
       ELSE [t EXCEPT !.request = TRUE, !.timer = TRUE, !.pc = "fetch"]

ProbeStart(s, url, cancellable) ==
    LET t == [s EXCEPT !.attempts = @ + 1]
    IN IF WithCacheBustThrows(url)
       THEN IF cancellable
            THEN ClearTimeout([t EXCEPT !.timer = TRUE, !.pc = "micro"])
            ELSE [t EXCEPT !.pc = "micro"]
       ELSE [t EXCEPT !.request = TRUE, !.timer = TRUE, !.pc = "fetch"]

\* wait(timeoutMs) of the fallback is never cleared: once the probe has
\* returned its timer is still pending (`stale`).
LeaveTimer(s) ==
    IF s.timer THEN [s EXCEPT !.timer = FALSE, !.stale = @ + 1] ELSE s

\* the fetch promise settles (fulfilled or rejected) before the deadline
FetchSettled(s, cancellable) ==
    LET t == [s EXCEPT !.request = FALSE]
    IN IF cancellable THEN ClearTimeout(t) ELSE LeaveTimer(t)

\* an abort whose signal was not given to fetch: the request goes on
AbortWithoutSignal(s) == s

\* controller.abort(), the signal being the one given to fetch (line 95):
\* the request is ended and the fetch promise rejects
Abort(s) == [s EXCEPT !.request = FALSE]

\* a cancellable path that gives the probe up at the deadline without
\* aborting its request
DeadlineExpiredNoAbort(s, cancellable) ==
    [s EXCEPT !.timer = FALSE, !.request = FALSE, !.late = @ + 1,
              !.cause = "timeout"]

\* the deadline timer of the running probe fires: the cancellable path
\* aborts the request (line 87); in the fallback the race is lost and the
\* request goes on with nobody awaiting it (`late`)
DeadlineExpired(s, cancellable) ==
    IF cancellable
    THEN Abort([s EXCEPT !.timer = FALSE, !.cause = "abort"])
    ELSE [s EXCEPT !.timer = FALSE, !.request = FALSE, !.late = @ + 1,
                   !.cause = "timeout"]

\* network requests of the card that are in flight
InFlight(s) == (IF s.request THEN 1 ELSE 0) + s.late

(***************************************************************************)
(* measureRtt                                                              *)
(***************************************************************************)
\* the comparator turned around: (a, b) => b - a
PlaceDescending(s, a) ==
    1 + Cardinality({b \in 1..Len(s) :
                       \/ s[a] - s[b] < 0
                       \/ (s[a] - s[b] = 0 /\ b < a)})

SortDescending(s) ==
    [p \in 1..Len(s) |-> s[CHOOSE a \in 1..Len(s) : PlaceDescending(s, a) = p]]

\* the comparator (a, b) => a - b
Compare(a, b) == a - b

\* Array.prototype.sort is stable: s[b] stands before s[a] when
\* Compare(s[b], s[a]) < 0, or when they compare equal and b < a.  The
\* element at place a goes to the place counted by those before it.
Place(s, a) ==
    1 + Cardinality({b \in 1..Len(s) :
                       \/ Compare(s[b], s[a]) < 0
                       \/ (Compare(s[b], s[a]) = 0 /\ b < a)})

\* successful.sort((a, b) => a - b)
SortAscending(s) ==
    [p \in 1..Len(s) |-> s[CHOOSE a \in 1..Len(s) : Place(s, a) = p]]

\* the lower middle element on even lengths
MedianLower(sorted) == sorted[((Len(sorted) - 1) \div 2) + 1]

\* sorted[Math.floor(sorted.length / 2)]
Median(sorted) == sorted[(Len(sorted) \div 2) + 1]

\* a list of samples shared by all runs instead of one per run
RECURSIVE AllSuccessful(_)
AllSuccessful(n) ==
    IF n = 0 THEN <<>> ELSE AllSuccessful(n - 1) \o card[n].successful

AggregateShared(successful, n) ==
    LET all == successful \o AllSuccessful(Len(pingUrl)) IN
    IF Len(all) = 0
    THEN [reachable |-> FALSE, successful |-> 0, samples |-> n]
    ELSE [reachable |-> TRUE,
          rtt |-> Median(SortAscending(all)),
          successful |-> Len(all),
          samples |-> n]

\* the reduction without its test for an empty list, no sample counting as 0
AggregateNoEmptyTest(successful, n) ==
    [reachable |-> TRUE,
     rtt |-> IF successful = <<>> THEN 0 ELSE Median(SortAscending(successful)),
     successful |-> Len(successful),
     samples |-> n]

\* the two counts of the aggregate taken for one another
AggregateSwapped(successful, n) ==
    IF Len(successful) = 0
    THEN [reachable |-> FALSE, successful |-> n, samples |-> 0]
    ELSE [reachable |-> TRUE,
          rtt |-> Median(SortAscending(successful)),
          successful |-> n,
          samples |-> Len(successful)]

\* lines 118-125: the aggregate of one run
Aggregate(successful, n) ==
    IF Len(successful) = 0
    THEN [reachable |-> FALSE, successful |-> 0, samples |-> n]
    ELSE [reachable |-> TRUE,
          rtt |-> Median(SortAscending(successful)),
          successful |-> Len(successful),
          samples |-> n]

\* a loop that runs once too often
LoopTestInclusive(i, n) == i <= n

\* for (let i = 0; i < samples; i += 1)
LoopTest(i, n) == i < n

\* a wait after every attempt, the last one included
NeedsDelayAlways(i, n) == i < n

\* if (i < samples - 1) await wait(180)
NeedsDelay(i, n) == i < n - 1

\* Math.floor(Math.random() * 11) + 150: the values it can return
randomWarnPing == {r + WarnBase : r \in 0..(WarnSpan - 1)}

MsText(n) == ToString(n) \o " ms"

\* the warn branch showing the measured value, as the up branch does
ClassifyShowsRtt(s, result) ==
    IF ~result.reachable THEN {SetPingState(s, "down", TextDown)}
    ELSE IF result.rtt < FastThreshold
         THEN {SetPingState(s, "up", MsText(result.rtt))}
    ELSE IF result.rtt <= SlowCeiling
         THEN {SetPingState(s, "warn", MsText(result.rtt))}
    ELSE {SetPingState(s, "down", TextDown)}

\* the fast threshold taken inclusive
ClassifyInclusive(s, result) ==
    IF ~result.reachable THEN {SetPingState(s, "down", TextDown)}
    ELSE IF result.rtt <= FastThreshold
         THEN {SetPingState(s, "up", MsText(result.rtt))}
    ELSE IF result.rtt <= SlowCeiling
         THEN {SetPingState(s, "warn", MsText(w)) : w \in randomWarnPing}
    ELSE {SetPingState(s, "down", TextDown)}

\* the classification with the `return` of the up branch missing
ClassifyFallThrough(s, result) ==
    IF ~result.reachable THEN {SetPingState(s, "down", TextDown)}
    ELSE LET t == IF result.rtt < FastThreshold
                  THEN SetPingState(s, "up", MsText(result.rtt))
                  ELSE s
         IN IF result.rtt <= SlowCeiling
            THEN {SetPingState(t, "warn", MsText(w)) : w \in randomWarnPing}
            ELSE {SetPingState(t, "down", TextDown)}

\* lines 143-159: the terminal render of a card from its aggregate; the
\* card states it can lead to (one per value of randomWarnPing)
Classify(s, result) ==
    IF ~result.reachable THEN {SetPingState(s, "down", TextDown)}
    ELSE IF result.rtt < FastThreshold
         THEN {SetPingState(s, "up", MsText(result.rtt))}
    ELSE IF result.rtt <= SlowCeiling
         THEN {SetPingState(s, "warn", MsText(w)) : w \in randomWarnPing}
    ELSE {SetPingState(s, "down", TextDown)}

\* the loop has ended: sort in place, reduce, return to the card's function
Finish(s) ==
    LET result == Aggregate(s.successful, samples)
        t == [s EXCEPT !.successful = SortAscending(@),
                       !.result = result,
                       !.pc = "done"]
    IN Classify(t, result)

\* the body of the loop ends and its `result` with it; i += 1 and the loop
\* test: the next probe, or the reduction
NextIteration(s, url) ==
    LET t == [s EXCEPT !.i = @ + 1, !.returned = {}, !.cause = "none",
                       !.waitMs = 0]
    IN IF LoopTest(t.i, samples)
       THEN {ProbeStart(t, url, hasAbortController)}
       ELSE Finish(t)

\* the rest of the loop body once probeRtt has returned `res` (`returned`
\* holds the value of `result`, line 109; `oks` counts the probes that
\* returned ok)
AfterProbe(s, url, res) ==
    LET r == [s EXCEPT !.returned = {res}]
        t == IF res.ok
             THEN [r EXCEPT !.successful = Append(@, res.rtt), !.oks = @ + 1]
             ELSE r
    IN IF NeedsDelay(t.i, samples)
       THEN {[t EXCEPT !.pc = "delay", !.delays = @ + 1, !.waitMs = DelayMs]}
       ELSE NextIteration(t, url)

Enqueue(q, c, s) == IF s.pc = "micro" THEN Append(q, c) ELSE q

(***************************************************************************)
(* Initial states                                                          *)
(***************************************************************************)
\* The markup of a card: the elements it holds, the status classes and the
\* text they carry when the script starts.
CompleteMarkup ==
    [statusEl |-> TRUE, valueEl |-> TRUE,
     classList |-> {"status", "status--down"}, valueElText |-> "-"]

CardMarkups ==
    {CompleteMarkup,
     [statusEl |-> TRUE, valueEl |-> TRUE, classList |-> {}, valueElText |-> ""],
     [statusEl |-> TRUE, valueEl |-> FALSE,
      classList |-> {"status", "status--down"}, valueElText |-> ""],
     [statusEl |-> FALSE, valueEl |-> TRUE, classList |-> {}, valueElText |-> "-"],
     [statusEl |-> FALSE, valueEl |-> FALSE, classList |-> {}, valueElText |-> ""]}

\* the markups of the cards of a page with several cards
BatchMarkups ==
    {CompleteMarkup,
     [statusEl |-> TRUE, valueEl |-> FALSE,
      classList |-> {"status", "status--down"}, valueElText |-> ""]}

NewCard(markup) ==
    [pc |-> "idle", i |-> 0, successful |-> <<>>,
     request |-> FALSE, timer |-> FALSE, late |-> 0, stale |-> 0,
     attempts |-> 0, delays |-> 0, returned |-> {}, cause |-> "none",
     waitMs |-> 0, oks |-> 0,
     result |-> [reachable |-> FALSE, successful |-> 0, samples |-> 0],
     renders |-> <<>>, status |-> "none", valueText |-> "",
     statusEl |-> markup.statusEl, valueEl |-> markup.valueEl,
     classList |-> markup.classList, valueElText |-> markup.valueElText]

\* docs/script.js runs on a page without FAQ
NoFaq ==
    /\ open = <<>>
    /\ coalesces = FALSE
    /\ toggleQ = <<>>
    /\ settled = TRUE

FaqVars == <<open, coalesces, toggleQ, settled>>

TypeVars == <<typedWord, prefersReduced, wordIndex, charIndex, deleting,
              textContent, stepDelay>>

\* lines 184-186
TypewriterAtRest ==
    /\ wordIndex = 0
    /\ charIndex = Len(words[1])
    /\ deleting = FALSE

\* the page has no element #typed-word: line 165 returns, no text is shown
NoTypewriter ==
    /\ typedWord = FALSE
    /\ prefersReduced = FALSE
    /\ TypewriterAtRest
    /\ textContent = <<>>
    /\ stepDelay = 0

\* what the ping block leaves alone beside its own inputs
Elsewhere == <<FaqVars, TypeVars>>

InitCommon ==
    /\ NoFaq
    /\ NoTypewriter
    /\ hasAbortController \in BOOLEAN
    /\ mainPc = "checking"
    /\ k = 1
    /\ microQ = <<>>

\* one card with its elements, any budget, every latency
InitRun ==
    /\ pingUrl \in [1..1 -> Urls]
    /\ samples \in 1..MaxSamples
    /\ latencies = RunLatencies
    /\ card = [c \in pingCards |-> NewCard(CompleteMarkup)]
    /\ InitCommon

\* one card of any markup, measureRtt(pingUrl, 3), a latency of each class
InitMarkup ==
    /\ pingUrl \in [1..1 -> Urls]
    /\ samples = BatchSamples
    /\ latencies = MarkupLatencies
    /\ card \in [pingCards -> {NewCard(mk) : mk \in CardMarkups}]
    /\ InitCommon

\* the page: several cards, measureRtt(pingUrl, 3); the cards that are
\* probed have their elements, a card without URL may lack one
InitBatch ==
    /\ pingUrl \in [1..NumCards -> Urls]
    /\ samples = BatchSamples
    /\ latencies = BatchLatencies
    /\ card \in {f \in [pingCards -> {NewCard(mk) : mk \in BatchMarkups}] :
                    \A c \in pingCards :
                        pingUrl[c] # NoUrl => f[c] = NewCard(CompleteMarkup)}
    /\ InitCommon

Init == InitRun \/ InitMarkup \/ InitBatch

(***************************************************************************)
(* The main script, lines 130-162                                          *)
(***************************************************************************)
Env == <<hasAbortController, pingUrl, samples, latencies>>

\* one loop for both: each card is rendered checking and its function is
\* called before the next card is looked at
RenderCheckingAndLaunch ==
    /\ mainPc = "checking"
    /\ LET s == SetPingState(card[k], "checking", TextChecking)
           t == IF pingUrl[k] = NoUrl
                THEN SetPingState([s EXCEPT !.pc = "done"], "down", TextDown)
                ELSE ProbeStart(s, pingUrl[k], hasAbortController)
       IN /\ card' = [card EXCEPT ![k] = t]
          /\ microQ' = Enqueue(microQ, k, t)
    /\ IF k = Len(pingUrl)
       THEN mainPc' = "done" /\ k' = k
       ELSE mainPc' = mainPc /\ k' = k + 1
    /\ UNCHANGED <<Elsewhere, Env>>

\* pingCards.forEach((card) => setPingState(card, "checking", ...))
RenderChecking ==
    /\ mainPc = "checking"
    /\ card' = [card EXCEPT ![k] = SetPingState(@, "checking", TextChecking)]
    /\ IF k = Len(pingUrl)
       THEN mainPc' = "launch" /\ k' = 1
       ELSE mainPc' = mainPc /\ k' = k + 1
    /\ UNCHANGED <<Elsewhere, Env, microQ>>

\* the function of a card without its test for a missing URL
LaunchCardNoTest(s, url) == ProbeStart(s, url, hasAbortController)

\* pingCards.map(async (card) => ...): the function of card k up to its
\* first await
LaunchCard(s, url) ==
    IF url = NoUrl
    THEN SetPingState([s EXCEPT !.pc = "done"], "down", TextDown)
    ELSE ProbeStart(s, url, hasAbortController)

Launch ==
    /\ mainPc = "launch"
    /\ card' = [card EXCEPT ![k] = LaunchCard(@, pingUrl[k])]
    /\ microQ' = Enqueue(microQ, k, card'[k])
    /\ IF k = Len(pingUrl)
       THEN mainPc' = "done" /\ k' = k
       ELSE mainPc' = mainPc /\ k' = k + 1
    /\ UNCHANGED <<Elsewhere, Env>>

(***************************************************************************)
(* Tasks of the event loop                                                 *)
(***************************************************************************)
TaskMayRun == mainPc = "done" /\ microQ = <<>>

\* the card's function goes on to `s` (one of the states in `next`)
Resume(c, q, next) ==
    \E s \in next :
        /\ card' = [card EXCEPT ![c] = s]
        /\ microQ' = Enqueue(q, c, s)

\* the continuation of a probe that returned without suspending
RunMicrotask ==
    /\ mainPc = "done"
    /\ microQ # <<>>
    /\ Resume(Head(microQ), Tail(microQ),
              AfterProbe(Because(card[Head(microQ)], "url"),
                         pingUrl[Head(microQ)], ProbeFailed))
    /\ UNCHANGED <<Elsewhere, Env, mainPc, k>>

\* the response arrives before the deadline
FetchResolve(c) ==
    /\ TaskMayRun
    /\ card[c].pc = "fetch"
    /\ \E rtt \in latencies :
         Resume(c, microQ,
                AfterProbe(Because(FetchSettled(card[c], hasAbortController), "response"),
                           pingUrl[c], ProbeOk(rtt)))
    /\ UNCHANGED <<Elsewhere, Env, mainPc, k>>

\* the request fails before the deadline (network error, refused)
FetchReject(c) ==
    /\ TaskMayRun
    /\ card[c].pc = "fetch"
    /\ Resume(c, microQ,
              AfterProbe(Because(FetchSettled(card[c], hasAbortController), "network"),
                         pingUrl[c], ProbeFailed))
    /\ UNCHANGED <<Elsewhere, Env, mainPc, k>>

\* the deadline of the running probe fires first; the probe returns
\* {ok: false} unless it still awaits its request
DeadlineReturn(s, url) ==
    LET t == DeadlineExpired(s, hasAbortController)
    IN IF t.request THEN {t} ELSE AfterProbe(t, url, ProbeFailed)

Deadline(c) ==
    /\ c \in pingCards
    /\ TaskMayRun
    /\ card[c].pc = "fetch"
    /\ card[c].timer
    /\ Resume(c, microQ, DeadlineReturn(card[c], pingUrl[c]))
    /\ UNCHANGED <<Elsewhere, Env, mainPc, k>>

\* wait(180) fires
DelayFire(c) ==
    /\ c \in pingCards
    /\ TaskMayRun
    /\ card[c].pc = "delay"
    /\ Resume(c, microQ, NextIteration(card[c], pingUrl[c]))
    /\ UNCHANGED <<Elsewhere, Env, mainPc, k>>

\* a timer of a probe that has returned fires: nobody listens
StaleTimerFire(c) ==
    /\ TaskMayRun
    /\ card[c].stale > 0
    /\ card' = [card EXCEPT ![c].stale = @ - 1]
    /\ UNCHANGED <<Elsewhere, Env, mainPc, k, microQ>>

\* the request of a probe that has returned settles: nobody listens
LateSettle(c) ==
    /\ TaskMayRun
    /\ card[c].late > 0
    /\ card' = [card EXCEPT ![c].late = @ - 1]
    /\ UNCHANGED <<Elsewhere, Env, mainPc, k, microQ>>

Next ==
    \/ RenderChecking
    \/ Launch
    \/ RunMicrotask
    \/ \E c \in pingCards : FetchResolve(c)
    \/ \E c \in pingCards : FetchReject(c)
    \/ \E c \in pingCards : Deadline(c)
    \/ \E c \in pingCards : DelayFire(c)
    \/ \E c \in pingCards : StaleTimerFire(c)
    \/ \E c \in pingCards : LateSettle(c)

Spec == Init /\ [][Next]_vars

\* The event loop runs every task that is ready, and a timer that was set
\* fires; the network owes nothing: a request may never settle.
Fairness ==
    /\ WF_vars(RenderChecking)
    /\ WF_vars(Launch)
    /\ WF_vars(RunMicrotask)
    /\ \A c \in 1..NumCards : WF_vars(Deadline(c)) /\ WF_vars(DelayFire(c))

FairSpec == Spec /\ Fairness

(***************************************************************************)
(* The FAQ of project/site/script.js                                       *)
(*                                                                         *)
(* Every <details> of the FAQ has a toggle listener (lines 19-25).  The    *)
(* browser changes the open attribute at once, on a click or on            *)
(* removeAttribute, and fires the toggle event of the element in a later   *)
(* task: toggleQ holds those tasks in their order.  A browser may fire one *)
(* event for several pending changes of an element, in the place of the    *)
(* last one (coalesces).                                                   *)
(***************************************************************************)
faqItems == DOMAIN open

\* the toggle task of item i is queued
QueueToggle(q, i) ==
    IF coalesces
    THEN Append(SelectSeq(q, LAMBDA j : j # i), i)
    ELSE Append(q, i)

\* item.removeAttribute("open"): nothing happens on an item that is closed
RemoveOpen(st, i) ==
    IF st.open[i]
    THEN [open |-> [st.open EXCEPT ![i] = FALSE], q |-> QueueToggle(st.q, i)]
    ELSE st

\* faqItems.forEach from item i on, the test `item !== current` left out
RECURSIVE CloseAllFrom(_, _, _)
CloseAllFrom(st, current, i) ==
    IF i > Len(st.open) THEN st
    ELSE CloseAllFrom(RemoveOpen(st, i), current, i + 1)

\* faqItems.forEach((item) => ...) from item i on
RECURSIVE CloseOthersFrom(_, _, _)
CloseOthersFrom(st, current, i) ==
    IF i > Len(st.open) THEN st
    ELSE CloseOthersFrom(IF i # current THEN RemoveOpen(st, i) ELSE st,
                         current, i + 1)

\* the handler closing every item
handleFaqToggleAll(st, current) == CloseAllFrom(st, current, 1)

handleFaqToggle(st, current) == CloseOthersFrom(st, current, 1)

\* the listener of lines 20-24
OnToggle(st, item) ==
    IF st.open[item] THEN handleFaqToggle(st, item) ELSE st

\* the page of the site has no ping cards: lines 130-162 do nothing
NoPingCards ==
    /\ hasAbortController = TRUE
    /\ pingUrl = <<>>
    /\ samples = BatchSamples
    /\ latencies = {}
    /\ mainPc = "done"
    /\ k = 1
    /\ card = <<>>
    /\ microQ = <<>>

PingVars == <<hasAbortController, pingUrl, samples, latencies, mainPc, k, card, microQ>>

\* the items of P in the order of the document
InOrder(P) ==
    CHOOSE q \in [1..Cardinality(P) -> P] :
        \A a, b \in 1..Cardinality(P) : a < b => q[a] < q[b]

\* The markup decides which items start open, any number of them.  The
\* browser queued a toggle event for each when it parsed the page; those
\* fired before the listeners of lines 19-25 were attached are gone, the
\* others are pending.  The script itself closes nothing at load.
FaqInit ==
    /\ NoPingCards
    /\ NoTypewriter
    /\ coalesces \in BOOLEAN
    /\ open \in [1..NumItems -> BOOLEAN]
    /\ toggleQ \in {InOrder(P) : P \in SUBSET {i \in 1..NumItems : open[i]}}
    /\ settled = (Cardinality({i \in 1..NumItems : open[i]}) <= 1)

\* a click on the <summary> of item i
UserToggle(i) ==
    /\ Len(toggleQ) < MaxPending
    /\ open' = [open EXCEPT ![i] = ~@]
    /\ toggleQ' = QueueToggle(toggleQ, i)
    /\ UNCHANGED <<PingVars, TypeVars, coalesces, settled>>

\* the toggle event of the first pending item is fired
FireToggle ==
    /\ toggleQ # <<>>
    /\ LET st == OnToggle([open |-> open, q |-> Tail(toggleQ)], Head(toggleQ))
       IN open' = st.open /\ toggleQ' = st.q
    /\ settled' = (settled \/ open[Head(toggleQ)])
    /\ UNCHANGED <<PingVars, TypeVars, coalesces>>

FaqNext ==
    \/ \E i \in faqItems : UserToggle(i)
    \/ FireToggle

FaqSpec == FaqInit /\ [][FaqNext]_vars

(***************************************************************************)
(* The typewriter of docs/script.js, lines 164-211                         *)
(***************************************************************************)
Max(a, b) == IF a > b THEN a ELSE b
Min(a, b) == IF a < b THEN a ELSE b

\* String.prototype.slice(start, end): a negative index counts from the
\* end, and both are clamped to the string
Slice(s, start, end) ==
    LET from == IF start < 0 THEN Max(Len(s) + start, 0) ELSE Min(start, Len(s))
        to == IF end < 0 THEN Max(Len(s) + end, 0) ELSE Min(end, Len(s))
    IN SubSeq(s, from + 1, to)

\* the test of the third branch taken inclusive
StillDeletingInclusive(d, c) == d /\ c >= 0

\* deleting && charIndex > 0
StillDeleting(d, c) == d /\ c > 0

\* what the markup can put in #typed-word: the first word, nothing, or
\* another text
TypedMarkups == {words[1], <<>>, <<"x", "y", "z">>}

\* lines 167-186 and 211 on a page with #typed-word: with reduced motion
\* line 180 writes the first word; otherwise nothing is written before the
\* first step and the element shows its markup
TypeInit ==
    /\ NoPingCards
    /\ NoFaq
    /\ typedWord = TRUE
    /\ prefersReduced \in BOOLEAN
    /\ TypewriterAtRest
    /\ textContent \in (IF prefersReduced THEN {words[1]} ELSE TypedMarkups)
    /\ stepDelay = IF prefersReduced THEN 0 ELSE FirstDelay

\* step, lines 188-209
step ==
    /\ stepDelay > 0
    /\ LET current == words[wordIndex + 1] IN
       /\ textContent' = Slice(current, 0, charIndex)
       /\ IF ~deleting /\ charIndex < Len(current)
          THEN /\ charIndex' = charIndex + 1
               /\ stepDelay' = TypingDelay
               /\ UNCHANGED <<deleting, wordIndex>>
          ELSE IF ~deleting /\ charIndex >= Len(current)
          THEN /\ deleting' = TRUE
               /\ stepDelay' = HoldDelay
               /\ UNCHANGED <<charIndex, wordIndex>>
          ELSE IF StillDeleting(deleting, charIndex)
          THEN /\ charIndex' = charIndex - 1
               /\ stepDelay' = DeleteDelay
               /\ UNCHANGED <<deleting, wordIndex>>
          ELSE /\ deleting' = FALSE
               /\ wordIndex' = (wordIndex + 1) % Len(words)
               /\ stepDelay' = NextWordDelay
               /\ UNCHANGED charIndex
    /\ UNCHANGED <<PingVars, FaqVars, typedWord, prefersReduced>>

TypeNext == step

TypeSpec == TypeInit /\ [][TypeNext]_vars

(***************************************************************************)
(* Properties                                                              *)
(***************************************************************************)
Terminal == {"up", "warn", "down"}
Probed(c) == pingUrl[c] # NoUrl
Done(c) == card[c].pc = "done"
IsAscending(s) == \A a, b \in 1..Len(s) : a < b => s[a] <= s[b]

\* C1: a measureRtt run with budget n issues exactly n probe attempts: never
\* more than n while it runs, and exactly n once it has returned, whatever
\* the mix of successful and failed probes.
C1_ExactBudget ==
    \A c \in pingCards :
        /\ card[c].attempts <= samples
        /\ card[c].pc \in {"fetch", "micro", "delay"} => card[c].attempts = card[c].i + 1
        /\ (Done(c) /\ Probed(c)) => card[c].attempts = samples

\* a run of three attempts that has returned with one success and two
\* failures
C1_Witness ==
    \E c \in pingCards :
        /\ Done(c) /\ samples = 3
        /\ card[c].attempts = 3
        /\ card[c].result.successful = 1

\* C2 as stated: in both strategies at most one network request of a target
\* is in flight.
C2_Original ==
    \A c \in pingCards : InFlight(card[c]) <= 1

\* C2 amended: a target has at most one attempt awaiting its result, attempt
\* i+1 being issued only once attempt i has returned; with AbortController at
\* most one network request of the target is in flight; in the fallback only
\* requests of attempts that have returned may be outstanding besides, never
\* more than attempts were issued.
C2_Amended ==
    \A c \in pingCards :
        /\ hasAbortController => InFlight(card[c]) <= 1
        /\ InFlight(card[c]) <= card[c].attempts
        /\ card[c].request => (card[c].pc = "fetch" /\ card[c].attempts = card[c].i + 1)

\* cancellable strategy: the second attempt is in flight after the first one
\* failed, and it is the only request
C2_Witness ==
    \E c \in pingCards :
        /\ hasAbortController
        /\ card[c].pc = "fetch" /\ card[c].i = 1
        /\ card[c].successful = <<>>
        /\ InFlight(card[c]) = 1

RendersOk(c) ==
    LET r == card[c].renders IN
    /\ Len(r) <= 2
    /\ Len(r) >= 1 => r[1] = "checking"
    /\ Len(r) = 2 => (r[2] \in Terminal /\ Done(c))
    /\ Done(c) => Len(r) = 2
    /\ Len(r) >= 1 => card[c].status = r[Len(r)]

\* C3: the render sink is called exactly twice for a target, once with
\* checking and once with a terminal state when its function ends, and a
\* terminal status never changes again.
C3_TwoRenders ==
    /\ [](\A c \in pingCards : RendersOk(c))
    /\ [][\A c \in pingCards :
            card[c].status \in Terminal =>
                /\ card'[c].status = card[c].status
                /\ card'[c].renders = card[c].renders
                /\ card'[c].valueText = card[c].valueText]_vars

\* the whole batch has ended: one card without URL, one probed card, each
\* rendered checking and then its terminal state
C3_Witness ==
    /\ Len(pingUrl) = 2
    /\ pingUrl[1] = GoodUrl /\ pingUrl[2] = NoUrl
    /\ \A c \in pingCards : Done(c)
    /\ card[1].renders = <<"checking", "up">>
    /\ card[2].renders = <<"checking", "down">>

AllTerminal ==
    \A c \in pingCards : Done(c) /\ card[c].status \in Terminal

\* C4: with timers that fire, every target reaches a terminal status even
\* when its requests fail or never settle: the deadline ends the attempt as
\* failed, the run goes on to the next attempt or to the reduction, and a
\* target without a successful attempt ends down; in both strategies.
C4_EveryTargetEnds ==
    /\ <>AllTerminal
    /\ [](\A c \in pingCards :
            (Done(c) /\ card[c].successful = <<>>) => card[c].status = "down")

\* fallback strategy: the run has ended down although none of its three
\* requests has settled
C4_Witness ==
    \E c \in pingCards :
        /\ ~hasAbortController
        /\ Done(c) /\ samples = 3
        /\ card[c].late = 3
        /\ card[c].status = "down"

\* C5: with thresholds 150 and 700, an aggregate below 150 renders up (with
\* its own value), one in 150..700 renders warn and one above 700 renders
\* down.
C5_Classification ==
    \A c \in pingCards :
        (Done(c) /\ Probed(c) /\ card[c].result.reachable) =>
            LET rtt == card[c].result.rtt IN
            /\ rtt < 150 =>
                 (card[c].status = "up" /\ card[c].valueText = ToString(rtt) \o " ms")
            /\ (150 <= rtt /\ rtt <= 700) => card[c].status = "warn"
            /\ rtt > 700 =>
                 (card[c].status = "down" /\ card[c].valueText = TextDown)

\* an aggregate of exactly 150 is rendered warn
C5_Witness ==
    \E c \in pingCards :
        Done(c) /\ card[c].result.reachable /\ card[c].result.rtt = 150
                /\ card[c].status = "warn"

\* C6 as stated: on an even number of successful samples the aggregate is
\* the lower of the two middle elements of the sorted samples.
C6_Original ==
    \A c \in pingCards :
        (Done(c) /\ Probed(c) /\ card[c].result.reachable
                 /\ Len(card[c].successful) % 2 = 0) =>
            /\ IsAscending(card[c].successful)
            /\ card[c].result.rtt = card[c].successful[Len(card[c].successful) \div 2]

\* C6 amended: on an even number k of successful samples the aggregate is
\* the upper of the two middle elements of the sorted samples, the element
\* at index k/2 counted from 0, without averaging: 300 for [100, 300].
C6_Amended ==
    \A c \in pingCards :
        (Done(c) /\ Probed(c) /\ card[c].result.reachable
                 /\ Len(card[c].successful) % 2 = 0) =>
            /\ IsAscending(card[c].successful)
            /\ card[c].result.rtt = card[c].successful[Len(card[c].successful) \div 2 + 1]

\* the run whose successful samples are 100 and 300 returns 300
C6_Witness ==
    \E c \in pingCards :
        /\ Done(c)
        /\ card[c].successful = <<100, 300>>
        /\ card[c].result.rtt = 300

Count(v, s) == Cardinality({a \in 1..Len(s) : s[a] = v})

\* C7: when a run with k >= 1 successful samples returns, its samples (in
\* whatever order they arrived) have been put in ascending numerical order
\* and the aggregate is the element at index floor(k/2) of that order.
C7_MedianOfSorted ==
    [][\A c \in pingCards :
         (~Done(c) /\ card'[c].pc = "done" /\ card'[c].result.reachable) =>
            LET arrived == card[c].successful
                sorted == card'[c].successful
                n == Len(sorted)
            IN /\ n >= 1 /\ n - Len(arrived) \in {0, 1}
               /\ \A v \in latencies : Count(v, sorted) >= Count(v, arrived)
               /\ \A a \in 1..n : sorted[a] \in latencies
               /\ IsAscending(sorted)
               /\ card'[c].result.rtt = sorted[(n \div 2) + 1]
               /\ card'[c].result.successful = n]_vars

\* the samples 90, 220 and 310 give the aggregate 220
C7_Witness ==
    \E c \in pingCards :
        /\ Done(c)
        /\ card[c].successful = <<90, 220, 310>>
        /\ card[c].result.rtt = 220

\* C8: a run whose attempts all failed returns reachable = false without an
\* rtt, so no threshold is compared, and the card is rendered down.
C8_AllFailedIsDown ==
    \A c \in pingCards :
        (Done(c) /\ Probed(c) /\ card[c].successful = <<>>) =>
            /\ card[c].attempts = samples
            /\ card[c].result = [reachable |-> FALSE, successful |-> 0, samples |-> samples]
            /\ card[c].renders = <<"checking", "down">>
            /\ card[c].valueText = TextDown

\* three attempts have failed and the card is down
C8_Witness ==
    \E c \in pingCards :
        /\ Done(c) /\ Probed(c)
        /\ card[c].attempts = 3 /\ card[c].successful = <<>>
        /\ ~card[c].result.reachable
        /\ card[c].status = "down"

\* no sampler has yet been handed the result of a probe
NothingDelivered ==
    \A d \in pingCards :
        /\ card[d].pc \in {"idle", "fetch", "micro"} \/ ~Probed(d)
        /\ card[d].i = 0 /\ card[d].delays = 0 /\ card[d].successful = <<>>

\* C9: a card without URL is rendered down by the main script itself, right
\* after checking and before the result of any probe has been handed to any
\* run; no probe, request or timer is ever started for it.
C9_NoUrlIsDownAtOnce ==
    /\ [](\A c \in pingCards : ~Probed(c) =>
            /\ card[c].attempts = 0 /\ InFlight(card[c]) = 0
            /\ ~card[c].timer /\ card[c].stale = 0 /\ card[c].delays = 0
            /\ card[c].pc \in {"idle", "done"}
            /\ mainPc = "done" => card[c].renders = <<"checking", "down">>)
    /\ [][\A c \in pingCards :
            (~Probed(c) /\ Len(card'[c].renders) = 2 /\ Len(card[c].renders) < 2) =>
                /\ mainPc = "launch"
                /\ card[c].renders = <<"checking">>
                /\ card'[c].renders = <<"checking", "down">>
                /\ NothingDelivered]_vars

\* the card without URL is down while the probe of the other card, issued
\* before it, is still in flight
C9_Witness ==
    /\ Len(pingUrl) = 2
    /\ pingUrl[1] = GoodUrl /\ pingUrl[2] = NoUrl
    /\ card[1].pc = "fetch" /\ card[1].i = 0 /\ card[1].status = "checking"
    /\ card[2].renders = <<"checking", "down">>
    /\ card[2].attempts = 0

\* the terminal status the samples of a run call for
OwnStatus(s) ==
    IF s = <<>> THEN "down"
    ELSE LET m == s[(Len(s) \div 2) + 1] IN
         IF m < 150 THEN "up" ELSE IF m <= 700 THEN "warn" ELSE "down"

\* C10: targets progress independently: a step of one target changes no
\* other target, a target is rendered as soon as its own last attempt has
\* returned, and its terminal status is the one its own samples call for.
C10_Independent ==
    /\ [](\A c \in pingCards :
            /\ (Probed(c) /\ card[c].attempts = samples
                  /\ card[c].pc \notin {"fetch", "micro"}) => Done(c)
            /\ (Done(c) /\ Probed(c)) =>
                  card[c].status = OwnStatus(card[c].successful))
    /\ [][\A c, d \in pingCards :
            (c # d /\ card'[c] # card[c]) => card'[d] = card[d]]_vars

\* the target whose probes all succeed is up while the target whose probes
\* fail is still checking
C10_Witness ==
    /\ Len(pingUrl) = 2
    /\ card[1].status = "checking" /\ card[1].i >= 1 /\ card[1].successful = <<>>
    /\ Done(2) /\ card[2].status = "up" /\ card[2].result.successful = 3

\* C11: no exception leaves probeRtt in either strategy: the run of a card
\* is never ended by one, and whatever ended the probe (a rejected fetch, the
\* abort, the lost race, a URL that does not parse) the value the run holds
\* until its next iteration is the same {ok: false}, which has no other
\* field; rtt is a field of the value exactly when ok is true and is then a
\* natural number.
C11_ProbeNeverThrows ==
    \A c \in pingCards :
        /\ card[c].pc \in {"idle", "fetch", "micro", "delay", "done"}
        /\ card[c].returned = {} <=> card[c].cause = "none"
        /\ \A r \in card[c].returned :
              /\ card[c].cause \in Causes
              /\ card[c].cause # "response" <=> r = ProbeFailed
              /\ r.ok <=> DOMAIN r = {"ok", "rtt"}
              /\ ~r.ok <=> DOMAIN r = {"ok"}
              /\ r.ok => r.rtt \in Nat

\* the probe of a URL that does not parse has returned {ok: false} to its
\* run, which waits before the next attempt
C11_Witness ==
    \E c \in pingCards :
        /\ pingUrl[c] = BadUrl
        /\ card[c].pc = "delay"
        /\ card[c].cause = "url"
        /\ card[c].returned = {ProbeFailed}

\* the texts of the band 150..160
WarnTexts == {ToString(w) \o " ms" : w \in 150..160}

\* C12: the value a warn card shows does not depend on the measured round
\* trip time: it is one of the eleven texts of the band 150..160, and for
\* every run whose aggregate lies in 150..700 the texts the classification
\* can show are those same eleven, so the text does not tell the aggregate.
C12_WarnTextHidesRtt ==
    \A c \in pingCards :
        /\ card[c].status = "warn" =>
              /\ Done(c) /\ card[c].result.reachable
              /\ card[c].valueText \in WarnTexts
        /\ (Done(c) /\ Probed(c) /\ card[c].result.reachable
               /\ 150 <= card[c].result.rtt /\ card[c].result.rtt <= 700) =>
              /\ card[c].status = "warn"
              /\ {s.valueText : s \in Classify(card[c], card[c].result)} = WarnTexts

\* an aggregate of 700 is shown as "150 ms"
C12_Witness ==
    \E c \in pingCards :
        /\ Done(c) /\ card[c].result.reachable
        /\ card[c].result.rtt = 700
        /\ card[c].status = "warn"
        /\ card[c].valueText = "150 ms"

\* C13: the terminal status of a target is a function of the outcomes of its
\* own probes, whatever the interleaving of the targets: the aggregate is
\* the reduction of its own samples, the classification gives one status
\* for an aggregate, and two targets of a batch whose runs had the same
\* successful samples end with the same aggregate and the same status.
C13_Deterministic ==
    \A c \in pingCards :
        (Done(c) /\ Probed(c)) =>
            /\ card[c].result = Aggregate(card[c].successful, samples)
            /\ {s.status : s \in Classify(card[c], card[c].result)} = {card[c].status}
            /\ \A d \in pingCards :
                  (Done(d) /\ Probed(d) /\ card[d].successful = card[c].successful) =>
                      /\ card[d].result = card[c].result
                      /\ card[d].status = card[c].status

\* two targets whose three probes each gave 90, 90 and a failure are both up
C13_Witness ==
    /\ Len(pingUrl) = 2
    /\ \A c \in pingCards :
          /\ Done(c) /\ card[c].attempts = 3
          /\ card[c].successful = <<90, 90>>
          /\ card[c].status = "up"

\* a probe has been issued for some card, or some card has been rendered a
\* second time
SomethingStarted ==
    \E c \in pingCards :
        \/ card[c].attempts > 0
        \/ Len(card[c].renders) >= 2
        \/ card[c].status \in Terminal

\* C14: every card of the page is rendered checking before any card gets a
\* terminal status and before any probe is issued, the down of a card
\* without URL included: while a card has yet to be rendered checking
\* nothing has started, and the first render of every card is checking.
C14_CheckingFirst ==
    \A c \in pingCards :
        /\ card[c].renders = <<>> => ~SomethingStarted
        /\ card[c].renders # <<>> => card[c].renders[1] = "checking"
        /\ mainPc = "checking" => ~SomethingStarted
        /\ mainPc # "checking" => card[c].renders # <<>>

\* the first card has no URL and is down at once; the second card is
\* checking and its probe has yet to be issued
C14_Witness ==
    /\ Len(pingUrl) = 2
    /\ pingUrl[1] = NoUrl /\ pingUrl[2] = GoodUrl
    /\ card[1].renders = <<"checking", "down">>
    /\ card[2].renders = <<"checking">>
    /\ card[2].attempts = 0

\* C15: within a run of n attempts, attempt i+1 starts only when attempt i
\* has returned and the wait of 180 ms that followed it has elapsed; the run
\* waits exactly n-1 times, and goes from its last attempt to the reduction
\* without a wait.
C15_DelaysBetweenAttempts ==
    /\ [](\A c \in pingCards :
            /\ card[c].delays <= samples - 1
            /\ card[c].pc \in {"fetch", "micro"} => card[c].delays = card[c].attempts - 1
            /\ card[c].pc = "delay" =>
                  /\ card[c].delays = card[c].attempts
                  /\ card[c].attempts < samples
                  /\ card[c].waitMs = 180
                  /\ ~card[c].request /\ ~card[c].timer
            /\ (Done(c) /\ Probed(c)) => card[c].delays = samples - 1)
    /\ [][\A c \in pingCards :
            /\ (card'[c].attempts # card[c].attempts /\ card[c].attempts >= 1) =>
                  /\ card[c].pc = "delay"
                  /\ card'[c].attempts = card[c].attempts + 1
                  /\ card'[c].delays = card[c].delays
            /\ (Probed(c) /\ ~Done(c) /\ card'[c].pc = "done") =>
                  /\ card[c].pc \in {"fetch", "micro"}
                  /\ card'[c].delays = card[c].delays
            /\ card'[c].delays # card[c].delays =>
                  /\ card[c].pc \in {"fetch", "micro"} /\ card'[c].pc = "delay"
                  /\ card'[c].delays = card[c].delays + 1]_vars

\* a run of three attempts has returned after two waits
C15_Witness ==
    \E c \in pingCards :
        /\ Done(c) /\ samples = 3
        /\ card[c].attempts = 3
        /\ card[c].delays = 2

\* C16: the aggregate a run returns has samples equal to the budget of the
\* run, which is the number of its attempts; its count of successes lies in
\* 0..samples and is the number of probes that returned ok; reachable holds
\* exactly when that count is at least 1, and rtt is a field of the
\* aggregate exactly when it is reachable.
C16_AggregateShape ==
    \A c \in pingCards :
        (Done(c) /\ Probed(c)) =>
            LET r == card[c].result IN
            /\ r.samples = samples /\ r.samples = card[c].attempts
            /\ 0 <= r.successful /\ r.successful <= r.samples
            /\ r.successful = card[c].oks
            /\ r.reachable <=> r.successful >= 1
            /\ r.reachable <=> DOMAIN r = {"reachable", "rtt", "successful", "samples"}
            /\ ~r.reachable <=> DOMAIN r = {"reachable", "successful", "samples"}

\* a run of three attempts of which two returned ok
C16_Witness ==
    \E c \in pingCards :
        /\ Done(c) /\ card[c].attempts = 3
        /\ card[c].oks = 2
        /\ card[c].result.reachable
        /\ card[c].result.successful = 2
        /\ card[c].result.samples = 3

\* C17: with AbortController a probe leaves nothing behind when it returns:
\* a request and a deadline timer exist only while the probe awaits its
\* fetch; once it has returned, by a response, an error, the abort at the
\* deadline or a URL that does not parse, its request is not in flight and
\* its timer is cleared, so no request outlives its probe and no abort
\* fires later.
C17_NothingLeftBehind ==
    hasAbortController =>
        \A c \in pingCards :
            /\ card[c].late = 0
            /\ card[c].stale = 0
            /\ card[c].pc = "fetch" <=> card[c].request
            /\ card[c].pc = "fetch" <=> card[c].timer
            /\ InFlight(card[c]) = (IF card[c].pc = "fetch" THEN 1 ELSE 0)

\* the deadline has aborted the request of the first attempt: the run waits
\* with no request in flight and no timer of the probe pending
C17_Witness ==
    \E c \in pingCards :
        /\ hasAbortController
        /\ card[c].pc = "delay" /\ card[c].cause = "abort"
        /\ card[c].returned = {ProbeFailed}
        /\ InFlight(card[c]) = 0
        /\ ~card[c].timer /\ card[c].stale = 0

OpenItems == {i \in faqItems : open[i]}

\* C18 as stated, its conclusion: with no toggle event pending at most one
\* FAQ item is open.
C18_Original ==
    toggleQ = <<>> => Cardinality(OpenItems) <= 1

\* C18 amended: when the toggle event of an item that is open is fired, the
\* item stays open and every other item is closed; the toggle event of an
\* item that is closed, those of the items the handler closed included,
\* changes no item; so once the toggle event of an open item has been fired,
\* or on a page whose markup opened one item at most, at most one item is
\* open whenever no toggle event is pending.
C18_Amended ==
    /\ []((settled /\ toggleQ = <<>>) => Cardinality(OpenItems) <= 1)
    /\ [][FireToggle =>
            IF open[Head(toggleQ)]
            THEN OpenItems' = {Head(toggleQ)} /\ settled'
            ELSE open' = open /\ toggleQ' = Tail(toggleQ)]_vars

\* the markup opened items 1 and 2 and their toggle events were pending:
\* that of item 1 has been fired and has closed item 2, whose two toggle
\* events are pending
C18_Witness ==
    /\ ~coalesces
    /\ settled
    /\ open = <<TRUE, FALSE, FALSE>>
    /\ toggleQ = <<2, 2>>

IsPrefix(t, w) == Len(t) <= Len(w) /\ t = SubSeq(w, 1, Len(t))

\* C19 as stated, its invariant: in every state 0 <= charIndex <= the length
\* of words[wordIndex] and the text shown is a prefix of that word.
C19_Original ==
    /\ 0 <= charIndex /\ charIndex <= Len(words[wordIndex + 1])
    /\ IsPrefix(textContent, words[wordIndex + 1])

\* C19 amended: in every state of the typewriter 0 <= charIndex <= the
\* length of words[wordIndex]; from the first step on, and with reduced
\* motion, the text shown is a prefix of that word (until the first step the
\* element shows the text of the markup); wordIndex changes only in a step
\* taken while deleting with charIndex 0, to the next index modulo the
\* number of words, and the machine then types the new word from its first
\* character.
C19_Amended ==
    /\ [](/\ wordIndex \in 0..(Len(words) - 1)
          /\ 0 <= charIndex /\ charIndex <= Len(words[wordIndex + 1])
          /\ stepDelay # 1800 => IsPrefix(textContent, words[wordIndex + 1])
          /\ stepDelay = 1800 => textContent \in TypedMarkups)
    /\ [][/\ wordIndex' # wordIndex =>
                /\ deleting /\ charIndex = 0
                /\ wordIndex' = (wordIndex + 1) % 9
                /\ ~deleting' /\ charIndex' = 0
          /\ (~deleting /\ charIndex < Len(words[wordIndex + 1])) =>
                /\ textContent' = SubSeq(words[wordIndex + 1], 1, charIndex)
                /\ charIndex' = charIndex + 1
                /\ ~deleting' /\ wordIndex' = wordIndex]_vars

\* the machine has gone through the nine words and is about to type the
\* first word again
C19_Witness ==
    /\ wordIndex = 0 /\ charIndex = 0 /\ ~deleting
    /\ textContent = <<>>
    /\ stepDelay = 360

====
